---- MODULE Spec2Model ----
(***************************************************************************)
(* Model of ide2py/psp.py: Personal Software Process time and defect       *)
(* tracking (stopwatch handlers, plan summary table, defect list, event    *)
(* log, and the time parser / formatter).                                  *)
(***************************************************************************)
EXTENDS Integers, Sequences, FiniteSets, TLC

\* ---------------------------------------------------------------- bounds
NPhases == 1        \* how many of PSP_PHASES the user may select
MaxTicks == 2       \* timer events fired in one behaviour
MaxLog == 4         \* event-log lines after which no logging handler starts
MaxDefects == 1     \* defects created in one behaviour
MaxEdits == 1       \* cells of the plan summary grid edited in one behaviour
MaxSelects == 1     \* changes of the phase choice in one behaviour
MaxLen == 3         \* characters of an input given to parse_time
MaxEffort == 5      \* log lines + ticks + edits + phase changes after which a short session ends

\* ------------------------------------------------------------- constants
PSP_PHASES == <<"planning", "design", "code", "compile", "test", "postmortem">>
PSP_TIMES == <<"plan", "actual", "interruption", "comments">>

\* Python's None for psp_interruption, selecteditemindex and a list-valued
\* comments cell; every proper value of those is >= 0.
None == -1

Phases == {PSP_PHASES[i] : i \in 1..NPhases}

VARIABLES
    timer,              \* wx.Timer running?
    tools,              \* toolbar: which of start / pause / stop are enabled
    psp_interruption,   \* None, or seconds of the interruption in flight
    phase_choice,       \* psp_phase_choice.GetCurrentSelection(): -1 or index
    cells,              \* PlanSummaryTable.cells: phase name -> record
    cells_disk,         \* what the file behind cells holds
    gauge,              \* last value returned by PlanSummaryTable.count
    data,               \* DefectListCtrl.data: key -> item
    data_disk,          \* what the file behind data holds
    key_map,            \* DefectListCtrl.key_map: list position -> key
    selecteditemindex,  \* DefectListCtrl.selecteditemindex
    log,                \* lines of the event log file
    ticks,              \* timer events fired so far
    edits,              \* grid cells edited so far
    selects,            \* changes of the phase choice so far
    created,            \* defects created so far
    last,               \* the handler that ran last, and what it did
    track,              \* history: bookkeeping of the pause toggle
    parsed              \* parse_time / pretty_time input and result

vars == <<timer, tools, psp_interruption, phase_choice, cells, cells_disk,
          gauge, data, data_disk, key_map, selecteditemindex, log, ticks,
          edits, selects, created, last, track, parsed>>

stopwatch == <<timer, tools, psp_interruption>>
defects == <<data, key_map, selecteditemindex>>
disk == <<cells_disk, data_disk>>

\* ------------------------------------------------------------ parse_time
\* A user input is a sequence of one-character strings.
IsDigit(c) == c \in {"0", "1", "2", "3", "4", "5", "6", "7", "8", "9"}

DigitVal(c) ==
    CASE c = "0" -> 0 [] c = "1" -> 1 [] c = "2" -> 2 [] c = "3" -> 3
      [] c = "4" -> 4 [] c = "5" -> 5 [] c = "6" -> 6 [] c = "7" -> 7
      [] c = "8" -> 8 [] c = "9" -> 9

\* str.lower() on one character
Lower(c) ==
    CASE c = "S" -> "s" [] c = "M" -> "m" [] c = "H" -> "h" [] OTHER -> c

RECURSIVE LStrip(_)
LStrip(s) == IF s # <<>> /\ Head(s) = " " THEN LStrip(Tail(s)) ELSE s

RECURSIVE RStrip(_)
RStrip(s) ==
    IF s # <<>> /\ s[Len(s)] = " " THEN RStrip(SubSeq(s, 1, Len(s) - 1)) ELSE s

\* str.strip().lower()
StripLower(s) == [i \in 1..Len(RStrip(LStrip(s))) |-> Lower(RStrip(LStrip(s))[i])]

\* str.split(): the maximal runs of non-blank characters
RECURSIVE Split(_, _, _)
Split(s, cur, acc) ==
    IF s = <<>> THEN (IF cur = <<>> THEN acc ELSE Append(acc, cur))
    ELSE IF Head(s) = " "
         THEN Split(Tail(s), <<>>, IF cur = <<>> THEN acc ELSE Append(acc, cur))
         ELSE Split(Tail(s), Append(cur, Head(s)), acc)

\* str.replace(",", ".")
ReplaceComma(s) == [i \in 1..Len(s) |-> IF s[i] = "," THEN "." ELSE s[i]]

RECURSIVE DigitsVal(_, _)
DigitsVal(s, acc) ==
    IF s = <<>> THEN acc ELSE DigitsVal(Tail(s), 10 * acc + DigitVal(Head(s)))

RECURSIVE Pow10(_)
Pow10(n) == IF n = 0 THEN 1 ELSE 10 * Pow10(n - 1)

DotPositions(s) == {i \in 1..Len(s) : s[i] = "."}

\* float(text): digits with at most one decimal point and at least one digit;
\* anything else raises ValueError.  The value is num / den.
FloatOk(s) ==
    /\ \A i \in 1..Len(s) : IsDigit(s[i]) \/ s[i] = "."
    /\ Cardinality(DotPositions(s)) <= 1
    /\ \E i \in 1..Len(s) : IsDigit(s[i])

FloatNum(s) == DigitsVal(SelectSeq(s, IsDigit), 0)

FloatDen(s) ==
    IF DotPositions(s) = {} THEN 1
    ELSE Pow10(Len(s) - (CHOOSE i \in DotPositions(s) : TRUE))

\* The factor the loop over ((1,'s'), (60,'m'), (3600,'h')) leaves behind: it
\* breaks at the matching unit and otherwise runs to the end, leaving the
\* last pair's factor bound.
UnitFactor(user_unit) ==
    IF user_unit = <<"s">> THEN 1
    ELSE IF user_unit = <<"m">> THEN 60
    ELSE 3600

\* parse_time(user_input): [raised, num, den]; the float returned is num / den.
Raised == [raised |-> TRUE, num |-> 0, den |-> 1]

\* The conversion with a float() that gives 0 for a text that is no number
ConvertLenient(user_time, user_unit) ==
    IF FloatOk(ReplaceComma(user_time))
    THEN [raised |-> FALSE,
          num |-> FloatNum(ReplaceComma(user_time)) * UnitFactor(user_unit),
          den |-> FloatDen(ReplaceComma(user_time))]
    ELSE [raised |-> FALSE, num |-> 0, den |-> 1]

\* float(user_time.replace(",", ".")) * factor
Convert(user_time, user_unit) ==
    IF FloatOk(ReplaceComma(user_time))
    THEN [raised |-> FALSE,
          num |-> FloatNum(ReplaceComma(user_time)) * UnitFactor(user_unit),
          den |-> FloatDen(ReplaceComma(user_time))]
    ELSE Raised

parse_time(user_input) ==
    LET s == StripLower(user_input) IN
    IF s = <<>> THEN [raised |-> FALSE, num |-> 0, den |-> 1]
    ELSE IF \E i \in 1..Len(s) : s[i] = " "
    THEN LET parts == Split(s, <<>>, <<>>) IN
         IF Len(parts) # 2 THEN Raised ELSE Convert(parts[1], parts[2])
    ELSE IF ~IsDigit(s[Len(s)])
    THEN Convert(SubSeq(s, 1, Len(s) - 1), <<s[Len(s)]>>)
    ELSE Convert(s, <<>>)

\* ----------------------------------------------------------- pretty_time
UnitBase == 60      \* a unit is used for counts below 60 of it

\* The pairs pretty_time's loop walks through
PrettyUnits ==
    <<[factor |-> 1, unit |-> "s"], [factor |-> 60, unit |-> "m"],
      [factor |-> 3600, unit |-> "h"]>>

\* The loop that breaks one count too late (counter <= 60 * factor)
PrettyPairInclusive(counter) ==
    IF counter <= UnitBase * PrettyUnits[1].factor THEN PrettyUnits[1]
    ELSE IF counter <= UnitBase * PrettyUnits[2].factor THEN PrettyUnits[2]
    ELSE PrettyUnits[3]

\* The pair the loop leaves bound: the first with counter < 60 * factor, and
\* the last one when it never breaks
PrettyPair(counter) ==
    IF counter < UnitBase * PrettyUnits[1].factor THEN PrettyUnits[1]
    ELSE IF counter < UnitBase * PrettyUnits[2].factor THEN PrettyUnits[2]
    ELSE PrettyUnits[3]

DigitChar(d) == <<"0", "1", "2", "3", "4", "5", "6", "7", "8", "9">>[d + 1]

\* "%d" of a number that is not negative
RECURSIVE Digits(_)
Digits(n) ==
    IF n < 10 THEN <<DigitChar(n)>>
    ELSE Append(Digits(n \div 10), DigitChar(n % 10))

\* "%0.2f" of counter / factor: the nearest hundredth.  When counter / factor
\* lies halfway between two hundredths the double that holds it lies a little
\* above or below, and the digit follows it: up says which.
Hundredths(counter, factor, up) ==
    IF (200 * counter) % (2 * factor) = factor
    THEN (100 * counter) \div factor + (IF up THEN 1 ELSE 0)
    ELSE (200 * counter + factor) \div (2 * factor)

Fixed2(counter, factor, up) ==
    Digits(Hundredths(counter, factor, up) \div 100) \o <<".">> \o
    <<DigitChar((Hundredths(counter, factor, up) % 100) \div 10),
      DigitChar(Hundredths(counter, factor, up) % 10)>>

\* pretty_time(counter) for a whole counter that is not negative
pretty_time(counter, up) ==
    IF counter % PrettyPair(counter).factor # 0
    THEN Fixed2(counter, PrettyPair(counter).factor, up)
         \o <<" ", PrettyPair(counter).unit>>
    ELSE Digits(counter \div PrettyPair(counter).factor)
         \o <<" ", PrettyPair(counter).unit>>

\* ------------------------------------------------------- PlanSummaryTable
\* A phase's dict with the defaults its readers use (.get(key_time, 0) and
\* .get('comments', [])).  comments_scalar is None while the comments cell
\* holds a list, and the number once SetValue has stored one there.
EmptyRec ==
    [plan |-> 0, actual |-> 0, interruption |-> 0, comments |-> <<>>,
     comments_scalar |-> None]

\* Shelf.sync() that writes nothing back
SyncSkipped(stored, live) == stored

\* Shelf.sync() with writeback=True: every entry the shelf holds in memory is
\* written over the file's entry of that key; the file keeps its other keys.
Sync(stored, live) ==
    [k \in DOMAIN stored \cup DOMAIN live |->
        IF k \in DOMAIN live THEN live[k] ELSE stored[k]]

\* self.cells.get(phase, {})
Get(phase) == IF phase \in DOMAIN cells THEN cells[phase] ELSE EmptyRec

\* self.cells.setdefault(key_phase, {})[key_time] = value; self.cells.sync()
Put(phase, key_time, value) ==
    [p \in DOMAIN cells \cup {phase} |->
        IF p # phase THEN cells[p]
        ELSE IF key_time = "comments"
             THEN [Get(phase) EXCEPT !.comments = <<>>, !.comments_scalar = value]
             ELSE [Get(phase) EXCEPT ![key_time] = value]]

\* Python truth value of psp_interruption (None and 0 are false)
Truthy(x) == x # None /\ x # 0

\* PlanSummaryTable.count: the bucket it increments, the table it leaves, and
\* the percentage it returns (nothing when plan is zero)
CountKey(interruption) == IF ~Truthy(interruption) THEN "actual" ELSE "interruption"

CountValue(phase, interruption) == Get(phase)[CountKey(interruption)] + 1

CountCells(phase, interruption) ==
    Put(phase, CountKey(interruption), CountValue(phase, interruption))

NoPercent == [none |-> TRUE, num |-> 0, den |-> 1]

CountPercent(phase, interruption) ==
    IF Get(phase).plan # 0
    THEN [none |-> FALSE, num |-> CountValue(phase, interruption) * 100,
          den |-> Get(phase).plan]
    ELSE NoPercent

\* PlanSummaryTable.comment raises when the phase has no dict in cells
\* (self.cells[key_phase] is a KeyError; '' never has one) or when the
\* comments cell holds a number (no append); otherwise it appends the pair.
CommentRaises(phase) ==
    \/ phase \notin DOMAIN cells
    \/ cells[phase].comments_scalar # None

CommentCells(phase, message, delta) ==
    [cells EXCEPT ![phase].comments = Append(@, <<message, delta>>)]

\* ------------------------------------------------------------- PSPMixin
\* GetPSPPhase that takes the first phase when the choice has no selection
GetPSPPhaseFirst == PSP_PHASES[IF phase_choice >= 0 THEN phase_choice + 1 ELSE 1]

\* PSPMixin.GetPSPPhase: the selected phase, '' when the choice has no selection
GetPSPPhase == IF phase_choice >= 0 THEN PSP_PHASES[phase_choice + 1] ELSE ""

NoUuid == 0     \* the "-" that psp_log_event writes when no defect is meant

\* psp_log_event: one line (the wall-clock timestamp is left out)
Line(event, uuid, comment) ==
    [event |-> event, uuid |-> uuid, phase |-> GetPSPPhase, comment |-> comment]

Messages == {"phone call"}

\* last: the handler that ran, whether it raised, what PlanSummaryTable.count
\* returned to it and what the user gave it
Done(op) == [op |-> op, raised |-> FALSE, ret |-> NoPercent, arg |-> <<>>]

Failed(op) == [op |-> op, raised |-> TRUE, ret |-> NoPercent, arg |-> <<>>]

ToolsIdle == [start |-> TRUE, pause |-> FALSE, stop |-> FALSE]

ToolsRunning == [start |-> FALSE, pause |-> TRUE, stop |-> TRUE]

OnStart ==
    /\ tools.start
    /\ Len(log) < MaxLog
    /\ timer' = TRUE
    /\ log' = Append(log, Line("start", NoUuid, ""))
    /\ tools' = ToolsRunning
    /\ last' = Done("OnStart")
    /\ track' = IF track.on THEN [track EXCEPT !.starts = @ + 1] ELSE track
    /\ UNCHANGED <<psp_interruption, phase_choice, cells, gauge, defects, disk,
                   ticks, edits, selects, created, parsed>>

\* The resume branch of OnPause, given the dialog's answer
ResumeRaises(ok) == ok /\ CommentRaises(GetPSPPhase)

ResumeCells(ok, message) ==
    IF ok THEN CommentCells(GetPSPPhase, message, psp_interruption) ELSE cells

ResumeLog(lg, ok, message) ==
    IF ok THEN Append(lg, Line("resuming", NoUuid, message)) ELSE lg

\* comment() ends with self.cells.sync(); a cancelled dialog never calls it
ResumeStored(ok, live) == IF ok THEN Sync(cells_disk, live) ELSE cells_disk

\* The button the user presses in the comment dialog
Answer(ok) == IF ok THEN <<"ok">> ELSE <<"cancel">>

OnPause ==
    /\ tools.pause
    /\ Len(log) < MaxLog
    /\ \E ok \in BOOLEAN, message \in Messages :
        IF psp_interruption # None
        THEN IF ResumeRaises(ok)
             THEN /\ last' = [Failed("OnPause") EXCEPT !.arg = Answer(ok)]
                  /\ UNCHANGED <<psp_interruption, cells, cells_disk, log>>
             ELSE /\ cells' = ResumeCells(ok, message)
                  /\ cells_disk' = ResumeStored(ok, cells')
                  /\ log' = ResumeLog(log, ok, message)
                  /\ psp_interruption' = None
                  /\ last' = [Done("OnPause") EXCEPT !.arg = Answer(ok)]
        ELSE /\ psp_interruption' = 0
             /\ log' = Append(log, Line("pausing!", NoUuid, ""))
             /\ last' = Done("OnPause")
             /\ UNCHANGED <<cells, cells_disk>>
    /\ track' = IF track.on THEN [track EXCEPT !.inpause = ~@] ELSE track
    /\ UNCHANGED <<timer, tools, phase_choice, gauge, defects, data_disk, ticks,
                   edits, selects, created, parsed>>

OnStop ==
    /\ tools.stop
    /\ Len(log) < MaxLog
    /\ timer' = FALSE
    /\ \E ok \in BOOLEAN, message \in Messages :
        LET stopped == Append(log, Line("stop", NoUuid, "")) IN
        IF Truthy(psp_interruption)
        THEN IF ResumeRaises(ok)
             THEN /\ log' = stopped
                  /\ last' = Failed("OnStop")
                  /\ UNCHANGED <<psp_interruption, cells, cells_disk, tools>>
             ELSE /\ cells' = ResumeCells(ok, message)
                  /\ cells_disk' = ResumeStored(ok, cells')
                  /\ log' = ResumeLog(stopped, ok, message)
                  /\ psp_interruption' = None
                  /\ tools' = ToolsIdle
                  /\ last' = Done("OnStop")
        ELSE /\ log' = stopped
             /\ tools' = ToolsIdle
             /\ last' = Done("OnStop")
             /\ UNCHANGED <<psp_interruption, cells, cells_disk>>
    /\ track' = IF track.on THEN [track EXCEPT !.stops = @ + 1] ELSE track
    /\ UNCHANGED <<phase_choice, gauge, defects, data_disk, ticks, edits,
                   selects, created, parsed>>

\* DefectListCtrl.count that adds the second to every unchecked defect
DefectCountEvery ==
    IF selecteditemindex # None /\ ~data[key_map[selecteditemindex]].checked
    THEN [k \in DOMAIN data |->
            IF data[k].checked THEN data[k]
            ELSE [data[k] EXCEPT !.fix_time = @ + 1]]
    ELSE data

\* DefectListCtrl.count without its look at the checked flag
DefectCountUnguarded ==
    IF selecteditemindex # None
    THEN [data EXCEPT ![key_map[selecteditemindex]].fix_time = @ + 1]
    ELSE data

\* DefectListCtrl.count: one more second on the activated defect, unless checked
DefectCount ==
    IF selecteditemindex # None /\ ~data[key_map[selecteditemindex]].checked
    THEN [data EXCEPT ![key_map[selecteditemindex]].fix_time = @ + 1]
    ELSE data

\* DefectListCtrl.count syncs inside the branch that adds the second
DefectCountStored(live) ==
    IF selecteditemindex # None /\ ~data[key_map[selecteditemindex]].checked
    THEN Sync(data_disk, live)
    ELSE data_disk

TimerHandler ==
    /\ timer
    /\ ticks < MaxTicks
    /\ ticks' = ticks + 1
    /\ LET interruption ==
               IF psp_interruption # None THEN psp_interruption + 1 ELSE None
           phase == GetPSPPhase
       IN /\ psp_interruption' = interruption
          /\ IF phase # ""
             THEN /\ cells' = CountCells(phase, interruption)
                  /\ gauge' = IF CountPercent(phase, interruption).none
                              THEN <<0, 1>>
                              ELSE <<CountPercent(phase, interruption).num,
                                     CountPercent(phase, interruption).den>>
                  /\ cells_disk' = Sync(cells_disk, cells')
                  /\ last' = [Done("TimerHandler") EXCEPT
                                 !.ret = CountPercent(phase, interruption)]
                  /\ data' = IF ~Truthy(interruption) THEN DefectCount ELSE data
                  /\ data_disk' = IF ~Truthy(interruption)
                                  THEN DefectCountStored(data') ELSE data_disk
             ELSE /\ last' = Done("TimerHandler")
                  /\ UNCHANGED <<cells, gauge, data, disk>>
    /\ track' = IF ~track.on THEN track
                ELSE IF track.inpause
                     THEN [track EXCEPT !.interruption = @ + 1]
                     ELSE [track EXCEPT !.actual = @ + 1]
    /\ UNCHANGED <<timer, tools, phase_choice, key_map, selecteditemindex, log,
                   edits, selects, created, parsed>>

\* The user picks another entry of the phase choice
SelectPhase ==
    /\ selects < MaxSelects
    /\ selects' = selects + 1
    /\ \E i \in 0..(NPhases - 1) :
          /\ i # phase_choice
          /\ phase_choice' = i
    /\ last' = Done("SelectPhase")
    /\ UNCHANGED <<stopwatch, cells, gauge, defects, disk, log, ticks, edits,
                   created, track, parsed>>

\* What the user types into a cell of the plan summary grid
CellInputs == {<<>>, <<"2", "s">>, <<"x">>, <<"1", " ", "s", " ", "s">>}

SetValue ==
    \E row \in 0..(NPhases - 1), col \in 0..(Len(PSP_TIMES) - 1),
       value \in CellInputs :
        /\ edits < MaxEdits
        /\ edits' = edits + 1
        /\ IF parse_time(value).raised
           THEN /\ last' = [Failed("SetValue") EXCEPT !.arg = value]
                /\ UNCHANGED <<cells, cells_disk>>
           ELSE /\ cells' = Put(PSP_PHASES[row + 1], PSP_TIMES[col + 1],
                                parse_time(value).num \div parse_time(value).den)
                /\ cells_disk' = Sync(cells_disk, cells')
                /\ last' = [Done("SetValue") EXCEPT !.arg = value]
        /\ UNCHANGED <<stopwatch, phase_choice, gauge, defects, data_disk, log,
                       ticks, selects, created, track, parsed>>

\* ------------------------------------------------------- DefectListCtrl
\* What the user may pick in the dialog's "Remove Phase" choice: nothing
\* (GetCurrentSelection() = -1, and phases[-1] is the last phase) or the
\* blank entry.
RemoveSelections == {-1, 0}

\* phases[sel] with phases = [""] + PSP_PHASES
DialogPhase(sel) ==
    IF sel = -1 THEN PSP_PHASES[Len(PSP_PHASES)]
    ELSE IF sel = 0 THEN "" ELSE PSP_PHASES[sel]

\* What the user types into the dialog's "Fix time" field
FixInputs == {<<>>, <<"x">>}

\* DefectListCtrl.AddItem with key=None: a fresh uuid (here the creation rank)
\* keys the item, the store is synced, "new_defect" is logged and the row is
\* appended to the list.
NewKey == Cardinality(DOMAIN data) + 1

AddItem(item) ==
    /\ data' = [k \in DOMAIN data \cup {NewKey} |->
                   IF k = NewKey THEN [item EXCEPT !.uuid = NewKey] ELSE data[k]]
    /\ data_disk' = Sync(data_disk, data')
    /\ created' = created + 1
    /\ log' = Append(log, Line("new_defect", NewKey, "item"))
    /\ key_map' = Append(key_map, NewKey)

\* The number taken without the + 1
DefectNumberRepeated == Cardinality(DOMAIN data)

\* str(len(self.psp_defect_list.data)+1): the number a new defect gets
DefectNumber == Cardinality(DOMAIN data) + 1

\* PSPMixin.OnDefect: DefectDialog.SetValue looks the current phase up in
\* PSP_PHASES and raises when none is selected; on OK the item comes from
\* DefectDialog.GetValue, which has no filename / lineno / offset.
OnDefect ==
    /\ created < MaxDefects
    /\ Len(log) < MaxLog
    /\ \E ok \in BOOLEAN, sel \in RemoveSelections, fix \in FixInputs :
        IF GetPSPPhase = "" \/ (ok /\ parse_time(fix).raised)
        THEN /\ last' = Failed("OnDefect")
             /\ UNCHANGED <<data, data_disk, key_map, log, created>>
        ELSE IF ok
        THEN /\ AddItem([number |-> DefectNumber,
                         uuid |-> NoUuid,
                         inject_phase |-> GetPSPPhase,
                         remove_phase |-> DialogPhase(sel),
                         fix_time |-> parse_time(fix).num \div parse_time(fix).den,
                         hasloc |-> FALSE,
                         checked |-> FALSE])
             /\ last' = Done("OnDefect")
        ELSE /\ last' = Done("OnDefect")
             /\ UNCHANGED <<data, data_disk, key_map, log, created>>
    /\ UNCHANGED <<stopwatch, phase_choice, cells, cells_disk, gauge,
                   selecteditemindex, ticks, edits, selects, track, parsed>>

\* PSPMixin.NotifyDefect: the external defect report
NotifyDefect ==
    /\ created < MaxDefects
    /\ Len(log) < MaxLog
    /\ AddItem([number |-> DefectNumber,
                uuid |-> NoUuid,
                inject_phase |-> GetPSPPhase,
                remove_phase |-> "",
                fix_time |-> 0,
                hasloc |-> TRUE,
                checked |-> FALSE])
    /\ last' = Done("NotifyDefect")
    /\ UNCHANGED <<stopwatch, phase_choice, cells, cells_disk, gauge,
                   selecteditemindex, ticks, edits, selects, track, parsed>>

\* DefectListCtrl.OnItemActivated: item["filename"] is a KeyError on an item
\* that came from the dialog
OnItemActivated ==
    /\ Len(log) < MaxLog
    /\ \E index \in 1..Len(key_map) :
        IF ~data[key_map[index]].hasloc
        THEN /\ last' = Failed("OnItemActivated")
             /\ UNCHANGED <<selecteditemindex, log>>
        ELSE /\ selecteditemindex' = index
             /\ log' = Append(log, Line("activate_defect", key_map[index], ""))
             /\ last' = Done("OnItemActivated")
    /\ UNCHANGED <<stopwatch, phase_choice, cells, gauge, data, disk, key_map,
                   ticks, edits, selects, created, track, parsed>>

\* OnCheckItem without its test that remove_phase is still unset
CheckedItemOverwriting(item, flag) ==
    IF item.checked # flag
    THEN IF flag
         THEN [item EXCEPT !.remove_phase = GetPSPPhase, !.checked = flag]
         ELSE [item EXCEPT !.checked = flag]
    ELSE item

\* DefectListCtrl.OnCheckItem(index, flag): the item after the call
CheckedItem(item, flag) ==
    IF item.checked # flag
    THEN IF flag
         THEN IF item.remove_phase = ""
              THEN [item EXCEPT !.remove_phase = GetPSPPhase, !.checked = flag]
              ELSE [item EXCEPT !.checked = flag]
         ELSE [item EXCEPT !.checked = flag]
    ELSE item

\* OnCheckItem that logs whatever the item's flag was
CheckedLogAlways(lg, item, flag) ==
    Append(lg, Line(IF flag THEN "checked_defect" ELSE "unchecked_defect",
                    item.uuid, ""))

\* OnCheckItem logs and syncs only when the flag differs from the item's
CheckedLog(lg, item, flag) ==
    IF item.checked # flag
    THEN Append(lg, Line(IF flag THEN "checked_defect" ELSE "unchecked_defect",
                         item.uuid, ""))
    ELSE lg

CheckedStored(item, flag, live) ==
    IF item.checked # flag THEN Sync(data_disk, live) ELSE data_disk

\* The user clicks a row's check box: CheckListCtrlMixin flips the box and
\* calls OnCheckItem with the new state of the box.
OnCheckItem ==
    /\ Len(log) < MaxLog
    /\ \E index \in 1..Len(key_map) :
        LET key == key_map[index]
            flag == ~data[key].checked
        IN /\ data' = [data EXCEPT ![key] = CheckedItem(data[key], flag)]
           /\ data_disk' = CheckedStored(data[key], flag, data')
           /\ log' = CheckedLog(log, data[key], flag)
    /\ last' = Done("OnCheckItem")
    /\ UNCHANGED <<stopwatch, phase_choice, cells, cells_disk, gauge, key_map,
                   selecteditemindex, ticks, edits, selects, created, track, parsed>>

\* ------------------------------------------------------------------ Init
NoTrack == [on |-> FALSE, inpause |-> FALSE, actual |-> 0, interruption |-> 0,
            starts |-> 0, stops |-> 0]

NoParse == [input |-> <<>>, result |-> Raised, applied |-> FALSE, text |-> <<>>]

\* PSPMixin.__init__ on first run: empty shelves, nothing selected
Init ==
    /\ timer = FALSE
    /\ tools = ToolsIdle
    /\ psp_interruption = None
    /\ phase_choice = -1
    /\ cells = [p \in {} |-> EmptyRec]
    /\ cells_disk = cells
    /\ gauge = <<0, 1>>
    /\ data = [k \in {} |-> 0]
    /\ data_disk = data
    /\ key_map = <<>>
    /\ selecteditemindex = None
    /\ log = <<>>
    /\ ticks = 0
    /\ edits = 0
    /\ selects = 0
    /\ created = 0
    /\ last = Done("init")
    /\ track = NoTrack
    /\ parsed = NoParse

Next ==
    \/ OnStart
    \/ OnPause
    \/ OnStop
    \/ TimerHandler
    \/ SelectPhase
    \/ SetValue
    \/ OnDefect
    \/ NotifyDefect
    \/ OnItemActivated
    \/ OnCheckItem

Spec == Init /\ [][Next]_vars

\* The handlers that touch the defect list or decide what a tick does to it
\* (everything but the editing of the plan summary grid)
NextDefects ==
    \/ OnStart
    \/ OnPause
    \/ OnStop
    \/ TimerHandler
    \/ SelectPhase
    \/ OnDefect
    \/ NotifyDefect
    \/ OnItemActivated
    \/ OnCheckItem

SpecDefects == Init /\ [][NextDefects]_vars

\* ------------------------------------------------------- short sessions
\* Every handler, in sessions where no handler starts once MaxEffort logged
\* events, ticks, cell edits and phase changes have happened.
Effort == Len(log) + ticks + edits + selects

NextBrief ==
    \/ Effort < MaxEffort /\ OnStart
    \/ Effort < MaxEffort /\ OnPause
    \/ Effort < MaxEffort /\ OnStop
    \/ Effort < MaxEffort /\ TimerHandler
    \/ Effort < MaxEffort /\ SelectPhase
    \/ Effort < MaxEffort /\ SetValue
    \/ Effort < MaxEffort /\ OnDefect
    \/ Effort < MaxEffort /\ NotifyDefect
    \/ Effort < MaxEffort /\ OnItemActivated
    \/ Effort < MaxEffort /\ OnCheckItem

SpecBrief == Init /\ [][NextBrief]_vars

\* ------------------------------------------- a session over a stored ledger
\* Defect ledgers an earlier session may have left in the shelve: up to two
\* defects reported through NotifyDefect while the first phase was selected,
\* each of them checked since or not.
StoredItem(k, checked) ==
    [number |-> k, uuid |-> k, inject_phase |-> PSP_PHASES[1],
     remove_phase |-> IF checked THEN PSP_PHASES[1] ELSE "",
     fix_time |-> 0, hasloc |-> TRUE, checked |-> checked]

StoredData ==
    {[k \in {} |-> 0]} \cup
    {[k \in {1} |-> StoredItem(k, c)] : c \in BOOLEAN} \cup
    {[k \in {1, 2} |-> StoredItem(k, IF k = 1 THEN c ELSE d)] :
        c \in BOOLEAN, d \in BOOLEAN}

\* The lines that session wrote to the event log: one "new_defect" for each
\* defect, then one "checked_defect" for each checked one
StoredLine(event, uuid, comment) ==
    [event |-> event, uuid |-> uuid, phase |-> PSP_PHASES[1], comment |-> comment]

RECURSIVE StoredLog(_, _)
StoredLog(stored, k) ==
    IF k = 0 THEN <<>>
    ELSE IF k > Cardinality(DOMAIN stored)
    THEN LET j == k - Cardinality(DOMAIN stored) IN
         IF stored[j].checked
         THEN Append(StoredLog(stored, k - 1), StoredLine("checked_defect", j, ""))
         ELSE StoredLog(stored, k - 1)
    ELSE Append(StoredLog(stored, k - 1), StoredLine("new_defect", k, "item"))

\* The program is not running; the files hold the ledger and the log.
InitClosed ==
    /\ timer = FALSE
    /\ tools = ToolsIdle
    /\ psp_interruption = None
    /\ phase_choice = -1
    /\ cells = [p \in {} |-> EmptyRec]
    /\ cells_disk = cells
    /\ gauge = <<0, 1>>
    /\ data \in StoredData
    /\ data_disk = data
    /\ key_map = <<>>
    /\ selecteditemindex = None
    /\ log = StoredLog(data, 2 * Cardinality(DOMAIN data))
    /\ ticks = 0
    /\ edits = 0
    /\ selects = 0
    /\ created = 0
    /\ last = Done("closed")
    /\ track = NoTrack
    /\ parsed = NoParse

\* The orders in which self.data.items() may yield the shelf's keys
Orders(keys) ==
    {order \in [1..Cardinality(keys) -> keys] :
        \A i, j \in 1..Cardinality(keys) : order[i] = order[j] => i = j}

\* AddItem(item, key) for a stored item: nothing is stored or logged, the row
\* is appended, and a checked item's box is ticked through ToggleItem, which
\* calls OnCheckItem(index, True).
LoadedItem(item) == IF item.checked THEN CheckedItem(item, TRUE) ELSE item

RECURSIVE LoadedLog(_, _)
LoadedLog(lg, order) ==
    IF order = <<>> THEN lg
    ELSE LoadedLog(IF data[Head(order)].checked
                   THEN CheckedLog(lg, data[Head(order)], TRUE) ELSE lg,
                   Tail(order))

LoadedStored(live) ==
    IF \E k \in DOMAIN data : data[k].checked /\ data[k].checked # TRUE
    THEN Sync(data_disk, live) ELSE data_disk

\* DefectListCtrl.__init__: the program starts and lists the stored defects
OpenSession ==
    /\ last.op = "closed"
    /\ \E order \in Orders(DOMAIN data) :
          /\ key_map' = order
          /\ log' = LoadedLog(log, order)
    /\ data' = [k \in DOMAIN data |-> LoadedItem(data[k])]
    /\ data_disk' = LoadedStored(data')
    /\ last' = Done("OpenSession")
    /\ UNCHANGED <<stopwatch, phase_choice, cells, cells_disk, gauge,
                   selecteditemindex, ticks, edits, selects, created, track,
                   parsed>>

Opened == last.op # "closed"

\* The stopwatch over the stored defects
NextSession ==
    \/ OpenSession
    \/ Opened /\ OnStart
    \/ Opened /\ OnPause
    \/ Opened /\ OnStop
    \/ Opened /\ TimerHandler
    \/ Opened /\ SelectPhase
    \/ Opened /\ OnItemActivated
    \/ Opened /\ OnCheckItem

SpecSession == InitClosed /\ [][NextSession]_vars

\* The defect list on its own: stored defects and new ones
NextLedger ==
    \/ OpenSession
    \/ Opened /\ SelectPhase
    \/ Opened /\ OnDefect
    \/ Opened /\ NotifyDefect
    \/ Opened /\ OnItemActivated
    \/ Opened /\ OnCheckItem

SpecLedger == InitClosed /\ [][NextLedger]_vars

\* ------------------------------------------- one start .. stop of the watch
\* Phase ledgers an earlier session may have left in the shelve
StoredCells ==
    {[p \in {} |-> EmptyRec]} \cup
    {[p \in {PSP_PHASES[1]} |->
         [EmptyRec EXCEPT !.plan = plan, !.actual = a, !.interruption = i]] :
       plan \in {0, 2}, a \in {0, 1}, i \in {0, 1}}

\* A fresh stopwatch (idle, no interruption in flight) with a phase selected;
\* track starts from the ledger's counters of that phase.
InitStopwatch ==
    /\ timer = FALSE
    /\ tools = ToolsIdle
    /\ psp_interruption = None
    /\ phase_choice \in 0..(NPhases - 1)
    /\ cells \in StoredCells
    /\ cells_disk = cells
    /\ gauge = <<0, 1>>
    /\ data = [k \in {} |-> 0]
    /\ data_disk = data
    /\ key_map = <<>>
    /\ selecteditemindex = None
    /\ log = <<>>
    /\ ticks = 0
    /\ edits = 0
    /\ selects = 0
    /\ created = 0
    /\ last = Done("init")
    /\ track = [on |-> TRUE, inpause |-> FALSE,
                actual |-> Get(GetPSPPhase).actual,
                interruption |-> Get(GetPSPPhase).interruption,
                starts |-> 0, stops |-> 0]
    /\ parsed = NoParse

NextStopwatch ==
    \/ OnStart
    \/ OnPause
    \/ OnStop
    \/ TimerHandler

SpecStopwatch == InitStopwatch /\ [][NextStopwatch]_vars

\* ------------------------------------------------- parse_time on its own
Alphabet == {"9", "0", " ", "s", "m", "h", "x", ","}

RECURSIVE Inputs(_)
Inputs(n) ==
    IF n = 0 THEN {<<>>}
    ELSE Inputs(n - 1) \cup
         {Append(s, c) : s \in {t \in Inputs(n - 1) : Len(t) = n - 1}, c \in Alphabet}

InitParse ==
    /\ timer = FALSE
    /\ tools = ToolsIdle
    /\ psp_interruption = None
    /\ phase_choice = -1
    /\ cells = [p \in {} |-> EmptyRec]
    /\ cells_disk = cells
    /\ gauge = <<0, 1>>
    /\ data = [k \in {} |-> 0]
    /\ data_disk = data
    /\ key_map = <<>>
    /\ selecteditemindex = None
    /\ log = <<>>
    /\ ticks = 0
    /\ edits = 0
    /\ selects = 0
    /\ created = 0
    /\ last = Done("init")
    /\ track = NoTrack
    /\ parsed \in {[NoParse EXCEPT !.input = s] : s \in Inputs(MaxLen)}

\* What the grid shows for a stored value: pretty_time(int(value)), nothing
\* when parse_time raised and nothing was stored
Shown(result, up) ==
    IF result.raised THEN <<>> ELSE pretty_time(result.num \div result.den, up)

\* A text is parsed as PlanSummaryTable.SetValue does, and the value is shown
\* as PlanSummaryTable.GetValue does.
ParseTime ==
    /\ ~parsed.applied
    /\ \E up \in BOOLEAN :
          parsed' = [parsed EXCEPT !.result = parse_time(parsed.input),
                                  !.applied = TRUE,
                                  !.text = Shown(parse_time(parsed.input), up)]
    /\ last' = Done("parse_time")
    /\ UNCHANGED <<stopwatch, phase_choice, cells, gauge, defects, disk, log,
                   ticks, edits, selects, created, track>>

SpecParse == InitParse /\ [][ParseTime]_vars

\* ------------------------------------- whole counts written with their unit
\* k followed by the unit letter, with sep between them
Written(k, sep, unit) == Digits(k) \o sep \o <<unit>>

InitRoundTrip ==
    /\ timer = FALSE
    /\ tools = ToolsIdle
    /\ psp_interruption = None
    /\ phase_choice = -1
    /\ cells = [p \in {} |-> EmptyRec]
    /\ cells_disk = cells
    /\ gauge = <<0, 1>>
    /\ data = [k \in {} |-> 0]
    /\ data_disk = data
    /\ key_map = <<>>
    /\ selecteditemindex = None
    /\ log = <<>>
    /\ ticks = 0
    /\ edits = 0
    /\ selects = 0
    /\ created = 0
    /\ last = Done("init")
    /\ track = NoTrack
    /\ parsed \in {[NoParse EXCEPT !.input = Written(k, sep, PrettyUnits[i].unit)] :
                     k \in 1..(UnitBase - 1), sep \in {<<>>, <<" ">>},
                     i \in 1..Len(PrettyUnits)}

SpecRoundTrip == InitRoundTrip /\ [][ParseTime]_vars

\* ================================================================ claims

\* C1: from a fresh stopwatch with one phase selected, after start, any mix
\* of pause and tick, and stop, the phase's actual counter has grown by the
\* ticks fired outside a pause..resume interval and its interruption counter
\* by the ticks fired inside one (track counts both, flipping on each pause).
C1_TicksByInterval ==
    (track.on /\ track.starts = 1 /\ track.stops = 1 /\ last.op = "OnStop")
        => /\ Get(GetPSPPhase).actual = track.actual
           /\ Get(GetPSPPhase).interruption = track.interruption

\* C2: after stop() the stopwatch is idle with no interruption in flight,
\* whatever state stop() was invoked in.
C2_StopClearsInterruption ==
    (last.op = "OnStop" /\ ~last.raised)
        => (~timer /\ psp_interruption = None)

\* C3: a tick's count() returns 100 * actual / plan of the phase (actual as
\* it stands after the call) when plan is nonzero, for interruption ticks
\* too, and nothing when plan is zero.
C3_PercentOfActual ==
    (last.op = "TimerHandler" /\ GetPSPPhase # "")
        => IF Get(GetPSPPhase).plan # 0
           THEN /\ ~last.ret.none
                /\ last.ret.num * Get(GetPSPPhase).plan
                     = 100 * Get(GetPSPPhase).actual * last.ret.den
           ELSE last.ret.none

\* C4: parse_time reads a whole number with no unit, or with a unit letter
\* other than s / m / h, as seconds, and with s, m, h as n*1, n*60, n*3600.
IsNumber(s) == s # <<>> /\ \A i \in 1..Len(s) : IsDigit(s[i])

SecondsOf(s) ==
    IF IsNumber(s) THEN DigitsVal(s, 0)
    ELSE DigitsVal(SubSeq(s, 1, Len(s) - 1), 0) *
         (CASE s[Len(s)] = "m" -> 60 [] s[Len(s)] = "h" -> 3600 [] OTHER -> 1)

C4_DefaultUnitSeconds ==
    (/\ parsed.applied
     /\ \/ IsNumber(parsed.input)
        \/ /\ Len(parsed.input) >= 2
           /\ IsNumber(SubSeq(parsed.input, 1, Len(parsed.input) - 1))
           /\ parsed.input[Len(parsed.input)] \in {"s", "m", "h", "x"})
        => /\ ~parsed.result.raised
           /\ parsed.result.num = SecondsOf(parsed.input) * parsed.result.den

\* The lines of lg whose event is e
CountEvent(lg, e) == Cardinality({i \in 1..Len(lg) : lg[i].event = e})

\* C5: every stopwatch transition invoked appends exactly one line to the
\* event log: each start, each pause, each resume (whether or not the
\* comment prompt is confirmed) and each stop; the log only grows at its end.
C5_OneLinePerTransition ==
    [][/\ (last'.op = "OnStart")
            => log' = Append(log, log'[Len(log')]) /\ log'[Len(log')].event = "start"
       /\ (last'.op = "OnPause" /\ ~last'.raised /\ psp_interruption = None)
            => log' = Append(log, log'[Len(log')]) /\ log'[Len(log')].event = "pausing!"
       /\ (last'.op = "OnPause" /\ ~last'.raised /\ psp_interruption # None)
            => log' = Append(log, log'[Len(log')]) /\ log'[Len(log')].event = "resuming"
       /\ (last'.op = "OnStop" /\ ~last'.raised)
            => /\ SubSeq(log', 1, Len(log)) = log
               /\ CountEvent(log', "stop") = CountEvent(log, "stop") + 1
      ]_vars

\* C6: when stop() closes an open interruption, the "resuming" line of that
\* interruption is appended before the "stop" line of that stop().
C6_ResumingBeforeStop ==
    [][(last'.op = "OnStop" /\ CountEvent(log', "resuming") > CountEvent(log, "resuming"))
          => /\ Len(log') = Len(log) + 2
             /\ log'[Len(log) + 1].event = "resuming"
             /\ log'[Len(log) + 2].event = "stop"
      ]_vars

\* Defect k has been checked at some time
EverChecked(k) ==
    \E i \in 1..Len(log) : log[i].event = "checked_defect" /\ log[i].uuid = k

\* C7 (as claimed): the first false -> true check of a defect whose
\* remove_phase is unset makes it the active phase, and from that first check
\* on remove_phase never changes again, even when no phase was selected then.
C7_SetOnceAtFirstCheck ==
    [][\A k \in DOMAIN data :
          /\ (~data[k].checked /\ data'[k].checked /\ data[k].remove_phase = "")
                => data'[k].remove_phase = GetPSPPhase
          /\ EverChecked(k) => data'[k].remove_phase = data[k].remove_phase
      ]_vars

\* C7 (amended): remove_phase changes only when the defect goes from
\* unchecked to checked with remove_phase unset, and then becomes the active
\* phase; once it names a phase it never changes again.
C7_SetOnceWhenPhaseKnown ==
    [][\A k \in DOMAIN data :
          /\ (~data[k].checked /\ data'[k].checked /\ data[k].remove_phase = "")
                => data'[k].remove_phase = GetPSPPhase
          /\ data[k].remove_phase # "" => data'[k].remove_phase = data[k].remove_phase
          /\ data'[k].remove_phase # data[k].remove_phase
                => ~data[k].checked /\ data'[k].checked
      ]_vars

\* A reported defect (created with remove_phase unset) checked for the second
\* time, its remove_phase still the phase that was active at its first check
C7_Witness ==
    /\ last.op = "OnCheckItem"
    /\ \E k \in DOMAIN data :
          /\ data[k].hasloc
          /\ data[k].checked
          /\ data[k].remove_phase # ""
          /\ data[k].remove_phase = GetPSPPhase
          /\ Cardinality({i \in 1..Len(log) :
                 log[i].event = "checked_defect" /\ log[i].uuid = k}) >= 2

\* C8: a tick while the activated defect is checked leaves the whole defect
\* ledger unchanged, and no step changes the fix_time of a checked defect.
C8_NoAccrualWhenChecked ==
    [][/\ (/\ last'.op = "TimerHandler"
           /\ selecteditemindex # None
           /\ data[key_map[selecteditemindex]].checked) => data' = data
       /\ \A k \in DOMAIN data :
             data[k].checked => data'[k].fix_time = data[k].fix_time
      ]_vars

\* A tick that would have accrued (running, not interrupted, phase selected)
\* has fired on an activated defect that is checked and has fix time already
C8_Witness ==
    /\ last.op = "TimerHandler"
    /\ timer
    /\ psp_interruption = None
    /\ GetPSPPhase # ""
    /\ selecteditemindex # None
    /\ data[key_map[selecteditemindex]].checked
    /\ data[key_map[selecteditemindex]].fix_time > 0

\* C9: a phase's actual and interruption counters change only by +1, only in
\* a tick, only for the selected phase while the timer runs; nothing else
\* (setting a cell included) lowers or overwrites them.
C9_CountersOnlyTick ==
    [][\A p \in Phases : \A c \in {"actual", "interruption"} :
          LET old == Get(p)[c]
              new == (IF p \in DOMAIN cells' THEN cells'[p] ELSE EmptyRec)[c]
          IN new # old
               => /\ new = old + 1
                  /\ last'.op = "TimerHandler"
                  /\ timer
                  /\ p = GetPSPPhase
      ]_vars

\* C10: a handler invoked where its transition is invalid is a no-op: start
\* while the timer runs, pause or stop while it does not, change neither the
\* stopwatch nor the ledgers nor the event log.
C10_InvalidIsNoOp ==
    [][((last'.op = "OnStart" /\ timer) \/
        (last'.op \in {"OnPause", "OnStop"} /\ ~timer))
          => UNCHANGED <<timer, psp_interruption, cells, data, log>>
      ]_vars

\* C11: after every completed operation the file behind the phase ledger and
\* the file behind the defect ledger hold exactly what the ledgers hold in
\* memory: each mutating operation (tick, cell edit, comment, defect creation,
\* check toggle, fix-time accrual) syncs before it returns.
C11_StoresSynced == cells_disk = cells /\ data_disk = data

\* C11 witness: a tick has just counted a second into the phase ledger and a
\* second of fix time into an activated defect, and both files hold it.
C11_Witness ==
    /\ last.op = "TimerHandler"
    /\ GetPSPPhase \in DOMAIN cells_disk
    /\ cells_disk[GetPSPPhase].actual > 0
    /\ \E k \in DOMAIN data_disk : data_disk[k].fix_time > 0

\* C12: a tick that arrives while no phase is selected changes neither the
\* phase ledger nor the defect ledger, in memory or on file, and gives no
\* progress signal (count returns nothing, the gauge keeps its value).
C12_NoPhaseTickIsNoOp ==
    [][(last'.op = "TimerHandler" /\ ticks' = ticks + 1 /\ phase_choice < 0)
        => /\ cells' = cells
           /\ data' = data
           /\ disk' = disk
           /\ gauge' = gauge
           /\ last'.ret.none]_vars

\* C12 witness: the watch runs uninterrupted, an unchecked defect is
\* activated (a tick with a phase would add to both ledgers), no phase is
\* selected and a tick has just been handled.
C12_Witness ==
    /\ last.op = "TimerHandler"
    /\ phase_choice < 0
    /\ timer
    /\ psp_interruption = None
    /\ selecteditemindex # None
    /\ ~data[key_map[selecteditemindex]].checked

\* An input of more than two blank-separated tokens, or one whose numeric
\* part (the first token, without the unit letter that ends a lone token) is
\* empty or holds a character that no number has
C13_Malformed(value) ==
    LET parts == Split(value, <<>>, <<>>)
        first == parts[1]
        numeric == IF Len(parts) = 1 /\ ~IsDigit(first[Len(first)])
                   THEN SubSeq(first, 1, Len(first) - 1) ELSE first
    IN \/ Len(parts) > 2
       \/ /\ Len(parts) \in {1, 2}
          /\ \/ numeric = <<>>
             \/ \E i \in 1..Len(numeric) :
                    ~IsDigit(numeric[i]) /\ numeric[i] \notin {".", ","}

\* C13: a cell edit whose input is malformed fails with the parser's error
\* and leaves the phase ledger as it was, in memory and on file.
C13_MalformedEditRejected ==
    [][(last'.op = "SetValue" /\ edits' = edits + 1 /\ C13_Malformed(last'.arg))
        => /\ last'.raised
           /\ cells' = cells
           /\ cells_disk' = cells_disk]_vars

\* C13 witness: an input of three tokens has just been refused by the grid of
\* a ledger that already holds a counted second.
C13_Witness ==
    /\ last.op = "SetValue"
    /\ last.raised
    /\ Len(Split(last.arg, <<>>, <<>>)) > 2
    /\ \E p \in DOMAIN cells : cells[p].actual > 0

\* C14: for every whole k in 1..59 and every unit u of s, m, h the parser
\* accepts "ku" and "k u" alike and returns k times the unit's seconds, and
\* the formatter shows that value as "k u".
C14_RoundTrip ==
    \A k \in 1..59, sep \in {<<>>, <<" ">>} :
        \A u \in {<<"s", 1>>, <<"m", 60>>, <<"h", 3600>>} :
            (parsed.applied /\ parsed.input = Digits(k) \o sep \o <<u[1]>>)
            => /\ ~parsed.result.raised
               /\ parsed.result.num = k * u[2] * parsed.result.den
               /\ parsed.text = Digits(k) \o <<" ", u[1]>>

\* C14 witness: "5m" has been parsed to 300 seconds and is shown as "5 m".
C14_Witness ==
    /\ parsed.applied
    /\ parsed.input = <<"5", "m">>
    /\ parsed.result = [raised |-> FALSE, num |-> 300, den |-> 1]
    /\ parsed.text = <<"5", " ", "m">>

\* C15: the defect list shows the records in creation order, within a
\* session and after the ledger is closed and opened again: the record at
\* position i is the i-th defect created.
C15_ListInCreationOrder ==
    \A i \in 1..Len(key_map) : data[key_map[i]].number = i

\* C16: pause() while an interruption is open, with the prompt confirmed,
\* always completes the resume, whatever phase is selected (none included)
\* and whatever the ledger holds (no record of the phase included): the
\* comment is appended to the phase, "resuming" is logged and the
\* interruption in flight is cleared.
C16_ConfirmedResumeCompletes ==
    [][(last'.op = "OnPause" /\ psp_interruption # None /\ last'.arg = Answer(TRUE))
        => /\ ~last'.raised
           /\ psp_interruption' = None
           /\ Len(log') = Len(log) + 1
           /\ log'[Len(log')].event = "resuming"
           /\ GetPSPPhase \in DOMAIN cells'
           /\ Len(cells'[GetPSPPhase].comments) = Len(Get(GetPSPPhase).comments) + 1
           /\ cells'[GetPSPPhase].comments[Len(cells'[GetPSPPhase].comments)][2]
                 = psp_interruption]_vars

\* C17: a tick changes the fix_time of at most one defect, the activated
\* one, and by exactly one second; it does so only while the watch runs
\* with no interruption open, a phase is selected and that defect is
\* unchecked.  A tick with an interruption open changes no fix_time.
C17_TickAccruesToOneDefect ==
    [][(last'.op = "TimerHandler" /\ ticks' = ticks + 1)
        => /\ DOMAIN data' = DOMAIN data
           /\ \A k \in DOMAIN data :
                 data'[k].fix_time # data[k].fix_time
                 => /\ data'[k].fix_time = data[k].fix_time + 1
                    /\ selecteditemindex # None
                    /\ k = key_map[selecteditemindex]
                    /\ timer
                    /\ psp_interruption = None
                    /\ phase_choice >= 0
                    /\ ~data[k].checked]_vars

\* C17 witness: of two unchecked defects in the list the activated one has
\* just got a second from a tick and the other has none.
C17_Witness ==
    /\ last.op = "TimerHandler"
    /\ Len(key_map) = 2
    /\ selecteditemindex # None
    /\ data[key_map[selecteditemindex]].fix_time = 1
    /\ \E k \in DOMAIN data :
          /\ k # key_map[selecteditemindex]
          /\ ~data[k].checked
          /\ data[k].fix_time = 0

\* C18: defect numbers are unique and sequential: the k-th defect created
\* has number k, and the numbers in the ledger are exactly 1..n.
C18_NumbersSequential ==
    /\ \A k \in DOMAIN data : data[k].number = k
    /\ \A j, k \in DOMAIN data : data[j].number = data[k].number => j = k
    /\ {data[k].number : k \in DOMAIN data} = 1..Cardinality(DOMAIN data)

\* C18 witness: the dialog has just added a third defect to a ledger that
\* held two from an earlier session, and it has number 3.
C18_Witness ==
    /\ last.op = "OnDefect"
    /\ created = 1
    /\ Cardinality(DOMAIN data) = 3
    /\ \E k \in DOMAIN data : data[k].number = 3 /\ ~data[k].hasloc

\* Lines of the log that report event e for the defect with this uuid
C19_Lines(lg, e, uuid) ==
    Cardinality({i \in 1..Len(lg) : lg[i].event = e /\ lg[i].uuid = uuid})

\* C19: opening the stored defect ledger again changes no record (uuid,
\* checked flag, remove phase, fix time), adds none, stores nothing and
\* logs nothing; over all sessions every defect has exactly one
\* "new_defect" line in the log.
C19_ReopenChangesNothing ==
    [][/\ last'.op = "OpenSession"
          => /\ data' = data
             /\ data_disk' = data_disk
             /\ log' = log
       /\ \A k \in DOMAIN data' : C19_Lines(log', "new_defect", k) = 1]_vars

\* C19 witness: a ledger of two defects, one of them checked, has just been
\* listed again.
C19_Witness ==
    /\ last.op = "OpenSession"
    /\ Len(key_map) = 2
    /\ \E k \in DOMAIN data : data[k].checked
    /\ \E k \in DOMAIN data : ~data[k].checked

\* The durations of a phase's comments, added up
RECURSIVE C20_Durations(_)
C20_Durations(comments) ==
    IF comments = <<>> THEN 0
    ELSE comments[1][2] + C20_Durations(Tail(comments))

\* C20: whenever no interruption is open, every phase's interruption
\* counter equals the sum of the durations in that phase's comments, after
\* any sequence of start, pause, resume, stop, tick and phase changes.
C20_InterruptionEqualsComments ==
    psp_interruption = None
    => \A p \in DOMAIN cells :
          cells[p].interruption = C20_Durations(cells[p].comments)

\* C21: activating any defect of the list succeeds, whether the dialog or
\* the external report created it: the row becomes the target of the
\* fix-time accrual and "activate_defect" is logged with the defect's uuid;
\* no activation fails.
C21_ActivationSucceeds ==
    [][last'.op = "OnItemActivated"
        => /\ ~last'.raised
           /\ selecteditemindex' \in 1..Len(key_map)
           /\ Len(log') = Len(log) + 1
           /\ log'[Len(log')].event = "activate_defect"
           /\ log'[Len(log')].uuid = key_map[selecteditemindex']]_vars

====
